---- MODULE Spec2Model ----
(***************************************************************************)
(* Pedestrian dead reckoning core (step detector, step-length and heading  *)
(* estimators, particle filter) and the redux slice that drives it.        *)
(*                                                                         *)
(* Numbers.  Every JavaScript number of the program is an exact rational   *)
(* <<n, d>> in lowest terms with d > 0; floating-point rounding is not     *)
(* modelled.  Math.sin / Math.cos are a table at one-degree resolution     *)
(* with three decimals.  Math.sqrt is exact on the perfect squares the     *)
(* acceleration inputs produce.                                            *)
(*                                                                         *)
(* Scale.  The program runs 150 particles with a resample threshold of 75. *)
(* The model runs NumParticles particles and keeps the ratio: the          *)
(* threshold is NumParticles / 2.                                          *)
(***************************************************************************)
EXTENDS Integers, Sequences, FiniteSets, TLC

(***************************************************************************)
(* Bounds of the model.                                                    *)
(***************************************************************************)
\* particles in the population (150 in the program)
NumParticles == 3
\* Date.now() at the first event, in units of 100 ms
EpochStart == 10
\* how far Date.now() advances over a run, in units of 100 ms
MaxElapsed == 3
\* largest advance of Date.now() between two events, in units of 100 ms
MaxDelta == 3
\* streams of Math.random() values a session draws from
NumStreams == 1
\* number of records captureSensorSnapshot may store
MaxSnapshots == 2

(***************************************************************************)
(* Exact rational arithmetic.                                              *)
(***************************************************************************)
Abs(n) == IF n < 0 THEN -n ELSE n

RECURSIVE GCD(_, _)
GCD(a, b) == IF b = 0 THEN a ELSE GCD(b, a % b)

R(n, d) ==
  LET s == IF d < 0 THEN -1 ELSE 1
      g == GCD(Abs(n), Abs(d))
  IN  <<(s * n) \div g, (s * d) \div g>>

Zero == <<0, 1>>
One == <<1, 1>>

RAdd(a, b) ==
  LET g == GCD(a[2], b[2])
  IN  R(a[1] * (b[2] \div g) + b[1] * (a[2] \div g), (a[2] \div g) * b[2])
RNeg(a) == <<-a[1], a[2]>>
RSub(a, b) == RAdd(a, RNeg(b))
RMul(a, b) ==
  LET g1 == GCD(Abs(a[1]), b[2])
      g2 == GCD(Abs(b[1]), a[2])
  IN  R((a[1] \div g1) * (b[1] \div g2), (a[2] \div g2) * (b[2] \div g1))
RDiv(a, b) == RMul(a, R(b[2], b[1]))
RLt(a, b) == a[1] * b[2] < b[1] * a[2]
RGt(a, b) == RLt(b, a)
RLe(a, b) == ~RLt(b, a)
RMin(a, b) == IF RLt(b, a) THEN b ELSE a
RMax(a, b) == IF RLt(a, b) THEN b ELSE a

\* JavaScript's a % m for an integer m > 0: the remainder has the sign of a.
JsMod(a, m) ==
  LET q == m * a[2]
  IN  IF a[1] < 0 THEN R(-((-a[1]) % q), a[2]) ELSE R(a[1] % q, a[2])

\* h % 360 alone
Wrap360Single(h) == JsMod(h, 360)

\* ((h % 360) + 360) % 360
Wrap360(h) == JsMod(RAdd(JsMod(h, 360), <<360, 1>>), 360)

\* Math.sqrt, exact on squares of rationals
ISqrt(n) == CHOOSE k \in 0..n : k * k = n
Sqrt(a) == <<ISqrt(a[1]), ISqrt(a[2])>>

\* 1000 * sin(d degrees), d = 0..90
SinTable ==
  <<  0, 17, 35, 52, 70, 87, 105, 122, 139, 156, 174, 191, 208,
      225, 242, 259, 276, 292, 309, 326, 342, 358, 375, 391, 407, 423,
      438, 454, 469, 485, 500, 515, 530, 545, 559, 574, 588, 602, 616,
      629, 643, 656, 669, 682, 695, 707, 719, 731, 743, 755, 766, 777,
      788, 799, 809, 819, 829, 839, 848, 857, 866, 875, 883, 891, 899,
      906, 914, 921, 927, 934, 940, 946, 951, 956, 961, 966, 970, 974,
      978, 982, 985, 988, 990, 993, 995, 996, 998, 999, 999, 1000, 1000 >>

SinInt(q) ==
  IF q <= 90 THEN SinTable[q + 1]
  ELSE IF q <= 180 THEN SinTable[180 - q + 1]
  ELSE IF q <= 270 THEN -SinTable[q - 180 + 1]
  ELSE -SinTable[360 - q + 1]

\* Math.sin and Math.cos of (h * PI / 180) for a heading h in [0, 360)
Sin(h) == R(SinInt(h[1] \div h[2]), 1000)
Cos(h) == R(SinInt(((h[1] \div h[2]) + 90) % 360), 1000)

(***************************************************************************)
(* Configuration.                                                          *)
(***************************************************************************)
defaultConfig ==
  [ particleCount |-> NumParticles,
    headingNoise |-> <<5, 1>>,
    stepLenNoise |-> <<1, 10>>,
    resampleThreshold |-> R(NumParticles, 2),
    maxHeadingBias |-> <<10, 1>>,
    headingCorrectionGain |-> <<3, 10>>,
    stepLengthWalkRange |-> << <<1, 2>>, <<7, 10>> >>,
    stepLengthRunRange |-> << <<7, 10>>, <<11, 10>> >> ]

(***************************************************************************)
(* 1) Step detection.  Returns the boolean and the updated PDR state.      *)
(***************************************************************************)
Magnitude(accel) ==
  Sqrt(RAdd(RAdd(RMul(accel.x, accel.x), RMul(accel.y, accel.y)),
            RMul(accel.z, accel.z)))

dynamicThreshold == <<6, 5>>
refractoryPeriod == <<1, 5>>

\* detectSteps that forgets to record the time of the step
detectStepsNoStamp(accel, timeNow, state) ==
  LET amag == Magnitude(accel)
      dt == RSub(timeNow, state.lastStepTime)
  IN  IF RGt(amag, dynamicThreshold) /\ RGt(dt, refractoryPeriod)
      THEN [ret |-> TRUE, state |-> [state EXCEPT !.stepCount = @ + 1]]
      ELSE [ret |-> FALSE, state |-> state]

\* detectSteps that accepts a magnitude equal to the threshold
detectStepsInclusive(accel, timeNow, state) ==
  LET amag == Magnitude(accel)
      dt == RSub(timeNow, state.lastStepTime)
  IN  IF RLe(dynamicThreshold, amag) /\ RGt(dt, refractoryPeriod)
      THEN [ret |-> TRUE,
            state |-> [state EXCEPT !.stepCount = @ + 1,
                                    !.lastStepTime = timeNow]]
      ELSE [ret |-> FALSE, state |-> state]

\* detectSteps that counts every sample above the threshold
detectStepsCountEarly(accel, timeNow, state) ==
  LET amag == Magnitude(accel)
      dt == RSub(timeNow, state.lastStepTime)
  IN  IF RGt(amag, dynamicThreshold) /\ RGt(dt, refractoryPeriod)
      THEN [ret |-> TRUE,
            state |-> [state EXCEPT !.stepCount = @ + 1,
                                    !.lastStepTime = timeNow]]
      ELSE [ret |-> FALSE,
            state |-> [state EXCEPT !.stepCount =
                         IF RGt(amag, dynamicThreshold) THEN @ + 1 ELSE @]]

\* detectSteps that records the time of every sample
detectStepsStampAlways(accel, timeNow, state) ==
  LET amag == Magnitude(accel)
      dt == RSub(timeNow, state.lastStepTime)
  IN  IF RGt(amag, dynamicThreshold) /\ RGt(dt, refractoryPeriod)
      THEN [ret |-> TRUE,
            state |-> [state EXCEPT !.stepCount = @ + 1,
                                    !.lastStepTime = timeNow]]
      ELSE [ret |-> FALSE, state |-> [state EXCEPT !.lastStepTime = timeNow]]

detectSteps(accel, timeNow, state) ==
  LET amag == Magnitude(accel)
      dt == RSub(timeNow, state.lastStepTime)
  IN  IF RGt(amag, dynamicThreshold) /\ RGt(dt, refractoryPeriod)
      THEN [ret |-> TRUE,
            state |-> [state EXCEPT !.stepCount = @ + 1,
                                    !.lastStepTime = timeNow]]
      ELSE [ret |-> FALSE, state |-> state]

(***************************************************************************)
(* 2) Step length estimation.                                              *)
(***************************************************************************)
getCalibrationCoeffs(motionState, context) ==
  IF motionState = "walking" /\ context = "holding"
  THEN [alpha |-> <<4, 5>>, beta |-> <<1, 10>>, gamma |-> <<7, 20>>]
  ELSE IF motionState = "running" /\ context = "pocket"
  THEN [alpha |-> <<11, 10>>, beta |-> <<2, 5>>, gamma |-> <<1, 2>>]
  ELSE [alpha |-> <<7, 10>>, beta |-> <<1, 5>>, gamma |-> <<3, 10>>]

estimateStepLength(stepFrequency, accelVariance, motionState, deviceContext) ==
  LET c == getCalibrationCoeffs(motionState, deviceContext)
  IN  RAdd(RAdd(RMul(c.alpha, stepFrequency), RMul(c.beta, accelVariance)),
           c.gamma)

(***************************************************************************)
(* 3) Heading.  geolocationHeading is a rational or Null.                  *)
(***************************************************************************)
Null == << >>

computeHeading(deviceOrientation, geolocationHeading) ==
  LET heading == IF geolocationHeading # Null
                 THEN RAdd(RMul(<<7, 10>>, deviceOrientation),
                           RMul(<<3, 10>>, geolocationHeading))
                 ELSE deviceOrientation
  IN  Wrap360(heading)

(***************************************************************************)
(* 4) Motion classification.                                               *)
(***************************************************************************)
\* the walking test with <= for <
classifyMotionInclusive(accelVariance, gyroVariance) ==
  IF RLe(accelVariance, <<1, 2>>) /\ RLe(gyroVariance, <<2, 1>>)
  THEN "walking"
  ELSE IF RGt(accelVariance, <<1, 2>>) /\ RGt(gyroVariance, <<5, 1>>)
  THEN "running"
  ELSE "stairs"

classifyMotion(accelVariance, gyroVariance) ==
  IF RLt(accelVariance, <<1, 2>>) /\ RLt(gyroVariance, <<2, 1>>)
  THEN "walking"
  ELSE IF RGt(accelVariance, <<1, 2>>) /\ RGt(gyroVariance, <<5, 1>>)
  THEN "running"
  ELSE "stairs"

(***************************************************************************)
(* 6) Post-processing.                                                     *)
(***************************************************************************)
\* the running branch clamps to the walking range
correctStepLengthWalkOnly(stepLength, motionState, config) ==
  IF motionState = "walking"
  THEN RMax(config.stepLengthWalkRange[1],
            RMin(stepLength, config.stepLengthWalkRange[2]))
  ELSE IF motionState = "running"
  THEN RMax(config.stepLengthWalkRange[1],
            RMin(stepLength, config.stepLengthWalkRange[2]))
  ELSE stepLength

correctStepLength(stepLength, motionState, config) ==
  IF motionState = "walking"
  THEN RMax(config.stepLengthWalkRange[1],
            RMin(stepLength, config.stepLengthWalkRange[2]))
  ELSE IF motionState = "running"
  THEN RMax(config.stepLengthRunRange[1],
            RMin(stepLength, config.stepLengthRunRange[2]))
  ELSE stepLength

correctHeading(headingDeg, bias, config) ==
  Wrap360(RAdd(headingDeg, RMul(config.headingCorrectionGain, bias)))

(***************************************************************************)
(* 5) Particle filter.                                                     *)
(*                                                                         *)
(* rnd is the sequence of values Math.random() returns during the call:    *)
(* two per particle while moving (heading noise, then step noise) and one  *)
(* more for the resampling offset.                                         *)
(***************************************************************************)
RECURSIVE SumWeights(_, _)
SumWeights(particles, n) ==
  IF n = 0 THEN Zero
  ELSE RAdd(SumWeights(particles, n - 1), particles[n].weight)

RECURSIVE SumSquares(_, _)
SumSquares(particles, n) ==
  IF n = 0 THEN Zero
  ELSE RAdd(SumSquares(particles, n - 1),
            RMul(particles[n].weight, particles[n].weight))

\* 1 / a, with 1 / 0 = Infinity written <<1, 0>> (no number is above it)
Reciprocal(a) == IF a[1] = 0 THEN <<1, 0>> ELSE R(a[2], a[1])

\* sine on y and cosine on x
MoveParticleSwapped(p, stepLength, headingDeg, config, r1, r2) ==
  LET headingNoise == RMul(RSub(r1, <<1, 2>>), config.headingNoise)
      stepLenNoise == RMul(RSub(r2, <<1, 2>>), config.stepLenNoise)
      pHeading == Wrap360(RAdd(headingDeg, headingNoise))
      step == RAdd(stepLength, stepLenNoise)
  IN  [ x |-> RAdd(p.x, RMul(step, Cos(pHeading))),
        y |-> RAdd(p.y, RMul(step, Sin(pHeading))),
        heading |-> pHeading,
        weight |-> p.weight ]

MoveParticle(p, stepLength, headingDeg, config, r1, r2) ==
  LET headingNoise == RMul(RSub(r1, <<1, 2>>), config.headingNoise)
      stepLenNoise == RMul(RSub(r2, <<1, 2>>), config.stepLenNoise)
      pHeading == Wrap360(RAdd(headingDeg, headingNoise))
      step == RAdd(stepLength, stepLenNoise)
  IN  [ x |-> RAdd(p.x, RMul(step, Sin(pHeading))),
        y |-> RAdd(p.y, RMul(step, Cos(pHeading))),
        heading |-> pHeading,
        weight |-> p.weight ]

MoveParticles(particles, stepLength, headingDeg, config, rnd) ==
  [ i \in 1..Len(particles) |->
      MoveParticle(particles[i], stepLength, headingDeg, config,
                   rnd[2 * i - 1], rnd[2 * i]) ]

\* normalization that divides by the number of particles
NormalizeWeightsByCount(particles) ==
  [ i \in 1..Len(particles) |->
      [particles[i] EXCEPT !.weight = RDiv(@, <<Len(particles), 1>>)] ]

\* normalization dividing by the negated sum
NormalizeWeightsNegated(particles) ==
  LET sumW == SumWeights(particles, Len(particles))
  IN  IF RGt(sumW, Zero)
      THEN [ i \in 1..Len(particles) |->
               [particles[i] EXCEPT !.weight = RDiv(@, RNeg(sumW))] ]
      ELSE particles

NormalizeWeights(particles) ==
  LET sumW == SumWeights(particles, Len(particles))
  IN  IF RGt(sumW, Zero)
      THEN [ i \in 1..Len(particles) |->
               [particles[i] EXCEPT !.weight = RDiv(@, sumW)] ]
      ELSE particles

Neff(particles) == Reciprocal(SumSquares(particles, Len(particles)))

\* while (u > cdf[i]) i++  -- cdf[i] past the end is undefined and the
\* comparison with undefined is false, so the walk stops at Len(cdf) + 1
RECURSIVE WalkCdf(_, _, _)
WalkCdf(cdf, u, i) ==
  IF i <= Len(cdf) /\ RGt(u, cdf[i]) THEN WalkCdf(cdf, u, i + 1) ELSE i

\* the loop over j of resampleParticles; i and u carry over between rounds.
\* Reading the fields of particles[i] past the end throws a TypeError.
RECURSIVE ResampleLoop(_, _, _, _, _, _, _)
ResampleLoop(particles, cdf, step, u, i, j, config) ==
  IF j >= config.particleCount
  THEN [threw |-> FALSE, newParticles |-> << >>]
  ELSE LET k == WalkCdf(cdf, u, i)
       IN  IF k > Len(particles)
           THEN [threw |-> TRUE, newParticles |-> << >>]
           ELSE LET rest == ResampleLoop(particles, cdf, step, RAdd(u, step),
                                         k, j + 1, config)
                    newP == [ x |-> particles[k].x,
                              y |-> particles[k].y,
                              heading |-> particles[k].heading,
                              weight |-> R(1, config.particleCount) ]
                IN  [threw |-> rest.threw,
                     newParticles |-> <<newP>> \o rest.newParticles]

\* resampling whose loop starts at j = 1
resampleParticlesShort(state, config, r) ==
  LET cdf == [ i \in 1..Len(state.particles) |-> SumWeights(state.particles, i) ]
      sum == SumWeights(state.particles, Len(state.particles))
      step == RDiv(sum, <<config.particleCount, 1>>)
      res == ResampleLoop(state.particles, cdf, step, RMul(r, step), 1, 1, config)
  IN  IF res.threw
      THEN [threw |-> TRUE, state |-> state]
      ELSE [threw |-> FALSE,
            state |-> [state EXCEPT !.particles = res.newParticles]]

\* the indices i the loop over j of resampleParticles selects, in order; it
\* ends with an index past the population if the walk leaves it
RECURSIVE IndexWalk(_, _, _, _, _, _)
IndexWalk(cdf, step, u, i, j, config) ==
  IF j >= config.particleCount
  THEN << >>
  ELSE LET k == WalkCdf(cdf, u, i)
       IN  IF k > Len(cdf)
           THEN << k >>
           ELSE << k >> \o IndexWalk(cdf, step, RAdd(u, step), k, j + 1, config)

\* resampling with the step taken over one particle fewer
resampleParticlesWideStep(state, config, r) ==
  LET cdf == [ i \in 1..Len(state.particles) |-> SumWeights(state.particles, i) ]
      sum == SumWeights(state.particles, Len(state.particles))
      step == RDiv(sum, <<config.particleCount - 1, 1>>)
      res == ResampleLoop(state.particles, cdf, step, RMul(r, step), 1, 0, config)
  IN  IF res.threw
      THEN [threw |-> TRUE, state |-> state]
      ELSE [threw |-> FALSE,
            state |-> [state EXCEPT !.particles = res.newParticles]]

\* resampling that resets the heading of every copy
resampleParticlesZeroHeading(state, config, r) ==
  LET cdf == [ i \in 1..Len(state.particles) |-> SumWeights(state.particles, i) ]
      sum == SumWeights(state.particles, Len(state.particles))
      step == RDiv(sum, <<config.particleCount, 1>>)
      res == ResampleLoop(state.particles, cdf, step, RMul(r, step), 1, 0, config)
  IN  IF res.threw
      THEN [threw |-> TRUE, state |-> state]
      ELSE [threw |-> FALSE,
            state |-> [state EXCEPT !.particles =
                         [ i \in 1..Len(res.newParticles) |->
                             [res.newParticles[i] EXCEPT !.heading = Zero] ]]]

\* r is the value of Math.random().  state.particles is assigned only when
\* the loop completes.
resampleParticles(state, config, r) ==
  LET cdf == [ i \in 1..Len(state.particles) |-> SumWeights(state.particles, i) ]
      sum == SumWeights(state.particles, Len(state.particles))
      step == RDiv(sum, <<config.particleCount, 1>>)
      res == ResampleLoop(state.particles, cdf, step, RMul(r, step), 1, 0, config)
  IN  IF res.threw
      THEN [threw |-> TRUE, state |-> state]
      ELSE [threw |-> FALSE,
            state |-> [state EXCEPT !.particles = res.newParticles]]

RECURSIVE WeightedX(_, _)
WeightedX(particles, n) ==
  IF n = 0 THEN Zero
  ELSE RAdd(WeightedX(particles, n - 1),
            RMul(particles[n].x, particles[n].weight))

RECURSIVE WeightedY(_, _)
WeightedY(particles, n) ==
  IF n = 0 THEN Zero
  ELSE RAdd(WeightedY(particles, n - 1),
            RMul(particles[n].y, particles[n].weight))

\* the update with the degeneracy test reversed
particleFilterUpdateReversedTest(state, stepLength, headingDeg, config, rnd) ==
  LET moved == MoveParticles(state.particles, stepLength, headingDeg, config, rnd)
      normalized == NormalizeWeights(moved)
      s1 == [state EXCEPT !.particles = normalized]
      neff == Neff(normalized)
      rs == IF RGt(neff, config.resampleThreshold)
            THEN resampleParticles(s1, config, rnd[2 * Len(state.particles) + 1])
            ELSE [threw |-> FALSE, state |-> s1]
      ps == rs.state.particles
  IN  IF rs.threw
      THEN [threw |-> TRUE, state |-> s1]
      ELSE [threw |-> FALSE,
            state |-> [rs.state EXCEPT !.x = WeightedX(ps, Len(ps)),
                                       !.y = WeightedY(ps, Len(ps))]]

\* the update that takes the mean before it resamples
particleFilterUpdateEarlyMean(state, stepLength, headingDeg, config, rnd) ==
  LET moved == MoveParticles(state.particles, stepLength, headingDeg, config, rnd)
      normalized == NormalizeWeights(moved)
      s1 == [state EXCEPT !.particles = normalized]
      neff == Neff(normalized)
      rs == IF RLt(neff, config.resampleThreshold)
            THEN resampleParticles(s1, config, rnd[2 * Len(state.particles) + 1])
            ELSE [threw |-> FALSE, state |-> s1]
  IN  IF rs.threw
      THEN [threw |-> TRUE, state |-> s1]
      ELSE [threw |-> FALSE,
            state |-> [rs.state EXCEPT
                         !.x = WeightedX(normalized, Len(normalized)),
                         !.y = WeightedY(normalized, Len(normalized))]]

\* the update that resamples whatever Neff is
particleFilterUpdateAlwaysResample(state, stepLength, headingDeg, config, rnd) ==
  LET moved == MoveParticles(state.particles, stepLength, headingDeg, config, rnd)
      normalized == NormalizeWeights(moved)
      s1 == [state EXCEPT !.particles = normalized]
      rs == resampleParticles(s1, config, rnd[2 * Len(state.particles) + 1])
      ps == rs.state.particles
  IN  IF rs.threw
      THEN [threw |-> TRUE, state |-> s1]
      ELSE [threw |-> FALSE,
            state |-> [rs.state EXCEPT !.x = WeightedX(ps, Len(ps)),
                                       !.y = WeightedY(ps, Len(ps))]]

\* the update that reweights each particle by its step-noise draw
particleFilterUpdateReweighted(state, stepLength, headingDeg, config, rnd) ==
  LET moved == MoveParticles(state.particles, stepLength, headingDeg, config, rnd)
      weighted == [ i \in 1..Len(moved) |->
                      [moved[i] EXCEPT !.weight = RMul(@, rnd[2 * i])] ]
      normalized == NormalizeWeights(weighted)
      s1 == [state EXCEPT !.particles = normalized]
      neff == Neff(normalized)
      rs == IF RLt(neff, config.resampleThreshold)
            THEN resampleParticles(s1, config, rnd[2 * Len(state.particles) + 1])
            ELSE [threw |-> FALSE, state |-> s1]
      ps == rs.state.particles
  IN  IF rs.threw
      THEN [threw |-> TRUE, state |-> s1]
      ELSE [threw |-> FALSE,
            state |-> [rs.state EXCEPT !.x = WeightedX(ps, Len(ps)),
                                       !.y = WeightedY(ps, Len(ps))]]

particleFilterUpdate(state, stepLength, headingDeg, config, rnd) ==
  LET moved == MoveParticles(state.particles, stepLength, headingDeg, config, rnd)
      normalized == NormalizeWeights(moved)
      s1 == [state EXCEPT !.particles = normalized]
      neff == Neff(normalized)
      rs == IF RLt(neff, config.resampleThreshold)
            THEN resampleParticles(s1, config, rnd[2 * Len(state.particles) + 1])
            ELSE [threw |-> FALSE, state |-> s1]
      ps == rs.state.particles
  IN  IF rs.threw
      THEN [threw |-> TRUE, state |-> s1]
      ELSE [threw |-> FALSE,
            state |-> [rs.state EXCEPT !.x = WeightedX(ps, Len(ps)),
                                       !.y = WeightedY(ps, Len(ps))]]

(***************************************************************************)
(* Inputs.                                                                 *)
(***************************************************************************)
Vec(x, y, z) == [x |-> x, y |-> y, z |-> z]
ZeroVec == Vec(Zero, Zero, Zero)
ZeroGyro == [alpha |-> Zero, beta |-> Zero, gamma |-> Zero]
StdPressure == <<4053, 4>>

\* magnitudes 1.2 (the threshold itself) and 1.5
AccelSet == { Vec(<<6, 5>>, Zero, Zero), Vec(<<-9, 10>>, <<6, 5>>, Zero) }
\* device alpha: north and east
AngleSet == { Zero, <<90, 1>> }
\* a starting position away from the origin
PosSet == { Vec(<<10, 1>>, <<-20, 1>>, One) }

\* values of Math.random(): stream 2 is the midpoint (no noise), the others
\* cycle through a low, a high and a middle draw
RandomPattern == << <<1, 10>>, <<9, 10>>, <<1, 2>> >>
Rnd(s, k) ==
  IF s = 2 THEN <<1, 2>>
  ELSE IF s = 4 THEN Zero
  ELSE RandomPattern[((k + s) % 3) + 1]
RandomStream(s, n) == [ k \in 1..n |-> Rnd(s, k) ]
Streams == 1..NumStreams

(***************************************************************************)
(* The store (sensorSlice), the hook's ref, the clock, and the record of   *)
(* the run.                                                                *)
(***************************************************************************)
VARIABLES
  userState,            \* "selectingStart" | "startPointSelected"
  sensorEnabled,
  dragMode,
  orientationAngle,
  rawAcceleration,
  rawGyroscope,
  rawMagnetometer,
  barometricPressure,
  recording,
  pdr,
  orientationAngleRef,  \* useDeviceMotion: last alpha seen
  now,                  \* last value of Date.now(), in units of 100 ms
  lastCall,             \* "none" yet, or how the last call of
                        \* updateRealTimePosition ended: "skipped" at the phase
                        \* gate, "noStep" or "step" by what detectSteps
                        \* returned; in SpecPF the function that was called
  stepTimes,            \* timeNow of every call of detectSteps that returned true
  threw,                \* the last call ended in a TypeError
  dataSnapshots,        \* sensorSlice: the records captured so far
  call                  \* the last call of a pure function on its own:
                        \* its name, arguments and return value

vars == << userState, sensorEnabled, dragMode, orientationAngle,
           rawAcceleration, rawGyroscope, rawMagnetometer, barometricPressure,
           recording, pdr, orientationAngleRef, now, lastCall, stepTimes,
           threw, dataSnapshots, call >>

rawVars == << rawAcceleration, rawGyroscope, rawMagnetometer, barometricPressure >>
uiVars == << dragMode, recording >>
histVars == << lastCall, stepTimes >>

NoCall == [ fn |-> "none" ]

InitialParticle ==
  [ x |-> Zero, y |-> Zero, heading |-> Zero, weight |-> R(1, NumParticles) ]

initialPDR ==
  [ x |-> Zero, y |-> Zero, z |-> Zero,
    lastStepTime |-> Zero,
    stepCount |-> 0,
    lastAccelMag |-> Zero,
    headingBias |-> Zero,
    deviceContext |-> "holding",
    motionState |-> "walking",
    particles |-> [ i \in 1..NumParticles |-> InitialParticle ] ]

Init ==
  /\ userState = "selectingStart"
  /\ sensorEnabled = FALSE
  /\ dragMode = FALSE
  /\ orientationAngle = Zero
  /\ rawAcceleration = ZeroVec
  /\ rawGyroscope = ZeroGyro
  /\ rawMagnetometer = ZeroVec
  /\ barometricPressure = StdPressure
  /\ recording = FALSE
  /\ pdr = initialPDR
  /\ orientationAngleRef = Zero
  /\ now = EpochStart
  /\ lastCall = "none"
  /\ stepTimes = << >>
  /\ threw = FALSE
  /\ dataSnapshots = << >>
  /\ call = NoCall

(***************************************************************************)
(* Reducers of sensorSlice.                                                *)
(***************************************************************************)
setSensorEnabled(payload) ==
  /\ sensorEnabled' = payload
  /\ userState' = IF payload THEN "startPointSelected" ELSE "selectingStart"
  /\ threw' = FALSE
  /\ UNCHANGED << orientationAngle, rawVars, uiVars, pdr, orientationAngleRef,
                  now, histVars >>
  /\ UNCHANGED << dataSnapshots, call >>

\* setUserState writing userState only
setUserStateOnly(payload) ==
  /\ userState' = payload
  /\ threw' = FALSE
  /\ UNCHANGED << sensorEnabled, orientationAngle, rawVars, uiVars, pdr,
                  orientationAngleRef, now, histVars >>
  /\ UNCHANGED << dataSnapshots, call >>

setUserState(payload) ==
  /\ userState' = payload
  /\ sensorEnabled' = (payload = "startPointSelected")
  /\ threw' = FALSE
  /\ UNCHANGED << orientationAngle, rawVars, uiVars, pdr, orientationAngleRef,
                  now, histVars >>
  /\ UNCHANGED << dataSnapshots, call >>

toggleDragMode(payload) ==
  /\ dragMode' = payload
  /\ threw' = FALSE
  /\ UNCHANGED << userState, sensorEnabled, orientationAngle, rawVars,
                  recording, pdr, orientationAngleRef, now, histVars >>
  /\ UNCHANGED << dataSnapshots, call >>

alignOrientation(payload) ==
  /\ orientationAngle' = payload
  /\ threw' = FALSE
  /\ UNCHANGED << userState, sensorEnabled, rawVars, uiVars, pdr,
                  orientationAngleRef, now, histVars >>
  /\ UNCHANGED << dataSnapshots, call >>

setStartingPosition(payload) ==
  /\ pdr' = [pdr EXCEPT !.x = payload.x, !.y = payload.y, !.z = payload.z]
  /\ threw' = FALSE
  /\ UNCHANGED << userState, sensorEnabled, orientationAngle, rawVars, uiVars,
                  orientationAngleRef, now, histVars >>
  /\ UNCHANGED << dataSnapshots, call >>

\* payload.orientationAngle is a number or Null (undefined)
updateSensors(payload) ==
  /\ rawAcceleration' = payload.acceleration
  /\ rawGyroscope' = payload.gyroscope
  /\ rawMagnetometer' = payload.magnetometer
  /\ barometricPressure' = payload.barometricPressure
  /\ orientationAngle' = IF payload.orientationAngle # Null
                         THEN payload.orientationAngle
                         ELSE orientationAngle
  /\ threw' = FALSE
  /\ UNCHANGED << userState, sensorEnabled, uiVars, pdr, orientationAngleRef,
                  now, histVars >>
  /\ UNCHANGED << dataSnapshots, call >>

\* the body of updateRealTimePosition writing the magnitude to z as well
RealTimePositionWritesZ(accel, orientation, state, nowSec, rnd) ==
  LET ds == detectSteps(accel, nowSec, state)
      st == ds.state
      dt == RSub(nowSec, st.lastStepTime)
      stepFreq == IF RGt(dt, Zero) THEN RDiv(One, dt) ELSE One
      accelVar == <<3, 10>>
      gyroVar == <<2, 1>>
      motion == classifyMotion(accelVar, gyroVar)
      st1 == [st EXCEPT !.motionState = motion]
      Ls0 == estimateStepLength(stepFreq, accelVar, motion, st1.deviceContext)
      Ls1 == correctStepLength(Ls0, motion, defaultConfig)
      Ls == RMul(Ls1, <<5, 1>>)
      h0 == computeHeading(orientation, Null)
      headingDeg == correctHeading(h0, st1.headingBias, defaultConfig)
      pf == particleFilterUpdate(st1, Ls, headingDeg, defaultConfig, rnd)
      st2 == IF ds.ret THEN pf.state ELSE st
  IN  [ stepDetected |-> ds.ret,
        stepFreq |-> stepFreq,
        stepLength |-> Ls,
        headingDeg |-> headingDeg,
        threw |-> ds.ret /\ pf.threw,
        pdr |-> [st2 EXCEPT !.lastAccelMag = Magnitude(accel),
                          !.z = Magnitude(accel)] ]

\* the body of updateRealTimePosition without the scaling by 5
RealTimePositionUnscaled(accel, orientation, state, nowSec, rnd) ==
  LET ds == detectSteps(accel, nowSec, state)
      st == ds.state
      dt == RSub(nowSec, st.lastStepTime)
      stepFreq == IF RGt(dt, Zero) THEN RDiv(One, dt) ELSE One
      accelVar == <<3, 10>>
      gyroVar == <<2, 1>>
      motion == classifyMotion(accelVar, gyroVar)
      st1 == [st EXCEPT !.motionState = motion]
      Ls0 == estimateStepLength(stepFreq, accelVar, motion, st1.deviceContext)
      Ls1 == correctStepLength(Ls0, motion, defaultConfig)
      Ls == Ls1
      h0 == computeHeading(orientation, Null)
      headingDeg == correctHeading(h0, st1.headingBias, defaultConfig)
      pf == particleFilterUpdate(st1, Ls, headingDeg, defaultConfig, rnd)
      st2 == IF ds.ret THEN pf.state ELSE st
  IN  [ stepDetected |-> ds.ret,
        stepFreq |-> stepFreq,
        stepLength |-> Ls,
        headingDeg |-> headingDeg,
        threw |-> ds.ret /\ pf.threw,
        pdr |-> [st2 EXCEPT !.lastAccelMag = Magnitude(accel)] ]

\* the body of updateRealTimePosition storing the magnitude on steps only
RealTimePositionMagOnStep(accel, orientation, state, nowSec, rnd) ==
  LET ds == detectSteps(accel, nowSec, state)
      st == ds.state
      dt == RSub(nowSec, st.lastStepTime)
      stepFreq == IF RGt(dt, Zero) THEN RDiv(One, dt) ELSE One
      accelVar == <<3, 10>>
      gyroVar == <<2, 1>>
      motion == classifyMotion(accelVar, gyroVar)
      st1 == [st EXCEPT !.motionState = motion]
      Ls0 == estimateStepLength(stepFreq, accelVar, motion, st1.deviceContext)
      Ls1 == correctStepLength(Ls0, motion, defaultConfig)
      Ls == RMul(Ls1, <<5, 1>>)
      h0 == computeHeading(orientation, Null)
      headingDeg == correctHeading(h0, st1.headingBias, defaultConfig)
      pf == particleFilterUpdate(st1, Ls, headingDeg, defaultConfig, rnd)
      st2 == IF ds.ret THEN pf.state ELSE st
  IN  [ stepDetected |-> ds.ret,
        stepFreq |-> stepFreq,
        stepLength |-> Ls,
        headingDeg |-> headingDeg,
        threw |-> ds.ret /\ pf.threw,
        pdr |-> IF ds.ret
                THEN [st2 EXCEPT !.lastAccelMag = Magnitude(accel)]
                ELSE st2 ]

\* the body of updateRealTimePosition taking dt from the time of the
\* previous step
RealTimePositionIntervalFreq(accel, orientation, state, nowSec, rnd) ==
  LET ds == detectSteps(accel, nowSec, state)
      st == ds.state
      dt == RSub(nowSec, state.lastStepTime)
      stepFreq == IF RGt(dt, Zero) THEN RDiv(One, dt) ELSE One
      accelVar == <<3, 10>>
      gyroVar == <<2, 1>>
      motion == classifyMotion(accelVar, gyroVar)
      st1 == [st EXCEPT !.motionState = motion]
      Ls0 == estimateStepLength(stepFreq, accelVar, motion, st1.deviceContext)
      Ls1 == correctStepLength(Ls0, motion, defaultConfig)
      Ls == RMul(Ls1, <<5, 1>>)
      h0 == computeHeading(orientation, Null)
      headingDeg == correctHeading(h0, st1.headingBias, defaultConfig)
      pf == particleFilterUpdate(st1, Ls, headingDeg, defaultConfig, rnd)
      st2 == IF ds.ret THEN pf.state ELSE st
  IN  [ stepDetected |-> ds.ret,
        stepFreq |-> stepFreq,
        stepLength |-> Ls,
        headingDeg |-> headingDeg,
        threw |-> ds.ret /\ pf.threw,
        pdr |-> [st2 EXCEPT !.lastAccelMag = Magnitude(accel)] ]

\* The body of updateRealTimePosition past the phase gate, on the cached
\* acceleration and orientation it reads: the new pdr, what detectSteps
\* returned, the stepFreq it computes for estimateStepLength, the stepLength
\* and headingDeg it passes to particleFilterUpdate, and whether the
\* particle filter threw.
RealTimePosition(accel, orientation, state, nowSec, rnd) ==
  LET ds == detectSteps(accel, nowSec, state)
      st == ds.state
      dt == RSub(nowSec, st.lastStepTime)
      stepFreq == IF RGt(dt, Zero) THEN RDiv(One, dt) ELSE One
      accelVar == <<3, 10>>
      gyroVar == <<2, 1>>
      motion == classifyMotion(accelVar, gyroVar)
      st1 == [st EXCEPT !.motionState = motion]
      Ls0 == estimateStepLength(stepFreq, accelVar, motion, st1.deviceContext)
      Ls1 == correctStepLength(Ls0, motion, defaultConfig)
      Ls == RMul(Ls1, <<5, 1>>)
      h0 == computeHeading(orientation, Null)
      headingDeg == correctHeading(h0, st1.headingBias, defaultConfig)
      pf == particleFilterUpdate(st1, Ls, headingDeg, defaultConfig, rnd)
      st2 == IF ds.ret THEN pf.state ELSE st
  IN  [ stepDetected |-> ds.ret,
        stepFreq |-> stepFreq,
        stepLength |-> Ls,
        headingDeg |-> headingDeg,
        threw |-> ds.ret /\ pf.threw,
        pdr |-> [st2 EXCEPT !.lastAccelMag = Magnitude(accel)] ]

\* updateRealTimePosition without the phase gate
updateRealTimePositionUngated(accel, orientation, d, s) ==
  LET nowSec == R(now + d, 10)
      rnd == RandomStream(s, 2 * Len(pdr.particles) + 1)
  IN  /\ now' = now + d
      /\ \E res \in { RealTimePosition(accel, orientation, pdr, nowSec, rnd) } :
           /\ lastCall' = IF res.stepDetected THEN "step" ELSE "noStep"
           /\ threw' = res.threw
           /\ pdr' = IF res.threw THEN pdr ELSE res.pdr
           /\ stepTimes' = IF res.stepDetected
                           THEN Append(stepTimes, nowSec) ELSE stepTimes

\* d is the advance of Date.now() since it was last read, s the stream of
\* Math.random().  A reducer that throws leaves the store as it was.
updateRealTimePositionOn(accel, orientation, d, s) ==
  IF userState = "selectingStart"
  THEN /\ lastCall' = "skipped"
       /\ threw' = FALSE
       /\ UNCHANGED << pdr, now, stepTimes >>
  ELSE LET nowSec == R(now + d, 10)
           rnd == RandomStream(s, 2 * Len(pdr.particles) + 1)
       IN  /\ now' = now + d
           /\ \E res \in { RealTimePosition(accel, orientation, pdr, nowSec, rnd) } :
                /\ lastCall' = IF res.stepDetected THEN "step" ELSE "noStep"
                /\ threw' = res.threw
                /\ pdr' = IF res.threw THEN pdr ELSE res.pdr
                /\ stepTimes' = IF res.stepDetected
                                THEN Append(stepTimes, nowSec) ELSE stepTimes

updateRealTimePosition(d, s) ==
  /\ now + d <= EpochStart + MaxElapsed
  /\ updateRealTimePositionOn(rawAcceleration, orientationAngle, d, s)
  /\ UNCHANGED << userState, sensorEnabled, orientationAngle, rawVars, uiVars,
                  orientationAngleRef >>
  /\ UNCHANGED << dataSnapshots, call >>

startDataRecording ==
  /\ recording' = TRUE
  /\ threw' = FALSE
  /\ UNCHANGED << userState, sensorEnabled, dragMode, orientationAngle, rawVars,
                  pdr, orientationAngleRef, now, histVars >>
  /\ UNCHANGED << dataSnapshots, call >>

stopDataRecording ==
  /\ recording' = FALSE
  /\ threw' = FALSE
  /\ UNCHANGED << userState, sensorEnabled, dragMode, orientationAngle, rawVars,
                  pdr, orientationAngleRef, now, histVars >>
  /\ UNCHANGED << dataSnapshots, call >>

\* captureSensorSnapshot keeping the newest record only
captureSensorSnapshotReplace(d) ==
  /\ Len(dataSnapshots) < MaxSnapshots
  /\ now + d <= EpochStart + MaxElapsed
  /\ now' = now + d
  /\ dataSnapshots' =
       Append(<< >>,
              [ timestamp |-> now + d,
                acceleration |-> rawAcceleration,
                gyroscope |-> rawGyroscope,
                magnetometer |-> rawMagnetometer,
                barometricPressure |-> barometricPressure,
                position |-> Vec(pdr.x, pdr.y, pdr.z) ])
  /\ threw' = FALSE
  /\ UNCHANGED << userState, sensorEnabled, orientationAngle, rawVars, uiVars,
                  pdr, orientationAngleRef, histVars, call >>

\* d is the advance of Date.now() since it was last read
captureSensorSnapshot(d) ==
  /\ Len(dataSnapshots) < MaxSnapshots
  /\ now + d <= EpochStart + MaxElapsed
  /\ now' = now + d
  /\ dataSnapshots' =
       Append(dataSnapshots,
              [ timestamp |-> now + d,
                acceleration |-> rawAcceleration,
                gyroscope |-> rawGyroscope,
                magnetometer |-> rawMagnetometer,
                barometricPressure |-> barometricPressure,
                position |-> Vec(pdr.x, pdr.y, pdr.z) ])
  /\ threw' = FALSE
  /\ UNCHANGED << userState, sensorEnabled, orientationAngle, rawVars, uiVars,
                  pdr, orientationAngleRef, histVars, call >>

(***************************************************************************)
(* useDeviceMotion: the two listeners, attached while sensorEnabled.       *)
(***************************************************************************)
\* the listener dispatching updateRealTimePosition before updateSensors
handleDeviceMotionStale(accel, d, s) ==
  /\ sensorEnabled
  /\ now + d <= EpochStart + MaxElapsed
  /\ rawAcceleration' = accel
  /\ rawGyroscope' = ZeroGyro
  /\ rawMagnetometer' = ZeroVec
  /\ barometricPressure' = StdPressure
  /\ orientationAngle' = orientationAngleRef
  /\ updateRealTimePositionOn(rawAcceleration, orientationAngle, d, s)
  /\ UNCHANGED << userState, sensorEnabled, uiVars, orientationAngleRef >>
  /\ UNCHANGED << dataSnapshots, call >>

\* dispatch(updateSensors(...)) then dispatch(updateRealTimePosition())
handleDeviceMotion(accel, d, s) ==
  /\ sensorEnabled
  /\ now + d <= EpochStart + MaxElapsed
  /\ rawAcceleration' = accel
  /\ rawGyroscope' = ZeroGyro
  /\ rawMagnetometer' = ZeroVec
  /\ barometricPressure' = StdPressure
  /\ orientationAngle' = orientationAngleRef
  /\ updateRealTimePositionOn(accel, orientationAngleRef, d, s)
  /\ UNCHANGED << userState, sensorEnabled, uiVars, orientationAngleRef >>
  /\ UNCHANGED << dataSnapshots, call >>

handleDeviceOrientation(alpha) ==
  /\ sensorEnabled
  /\ orientationAngleRef' = alpha
  /\ rawAcceleration' = ZeroVec
  /\ rawGyroscope' = ZeroGyro
  /\ rawMagnetometer' = ZeroVec
  /\ barometricPressure' = StdPressure
  /\ orientationAngle' = alpha
  /\ threw' = FALSE
  /\ UNCHANGED << userState, sensorEnabled, uiVars, pdr, now, histVars >>
  /\ UNCHANGED << dataSnapshots, call >>

SensorPayloads ==
  { [ acceleration |-> a, gyroscope |-> ZeroGyro, magnetometer |-> ZeroVec,
      barometricPressure |-> StdPressure, orientationAngle |-> o ] :
    a \in AccelSet, o \in AngleSet \cup {Null} }

\* A session: the reducers on the path from a sensor sample to a position.
Next ==
  \/ \E b \in BOOLEAN : setSensorEnabled(b)
  \/ \E u \in {"selectingStart", "startPointSelected"} : setUserState(u)
  \/ \E a \in AngleSet : alignOrientation(a)
  \/ \E p \in PosSet : setStartingPosition(p)
  \/ \E payload \in SensorPayloads : updateSensors(payload)
  \/ \E d \in 0..MaxDelta, s \in Streams : updateRealTimePosition(d, s)

Spec == Init /\ [][Next]_vars

\* The listeners of useDeviceMotion in any order, with the reducers that
\* attach and detach them and alignOrientation writing the store between
\* events.
\* devicemotion samples: on the threshold, above it, and well above it
HookAccelSet == AccelSet \cup { Vec(Zero, Zero, <<2, 1>>) }

NextHook ==
  \/ \E b \in BOOLEAN : setSensorEnabled(b)
  \/ \E a \in AngleSet : alignOrientation(a)
  \/ \E a \in HookAccelSet, d \in 0..MaxDelta, s \in Streams :
       handleDeviceMotion(a, d, s)
  \/ \E alpha \in AngleSet : handleDeviceOrientation(alpha)

SpecHook == Init /\ [][NextHook]_vars

\* The whole store: every reducer of the slice, on fewer sensor values.
StoreDeltas == { 0, MaxDelta }
StorePayloads ==
  { [ acceleration |-> a, gyroscope |-> ZeroGyro, magnetometer |-> ZeroVec,
      barometricPressure |-> StdPressure, orientationAngle |-> <<90, 1>> ] :
    a \in { Vec(<<-9, 10>>, <<6, 5>>, Zero) } }

NextStore ==
  \/ \E b \in BOOLEAN : setSensorEnabled(b)
  \/ \E u \in {"selectingStart", "startPointSelected"} : setUserState(u)
  \/ \E b \in BOOLEAN : toggleDragMode(b)
  \/ alignOrientation(Zero)
  \/ \E p \in PosSet : setStartingPosition(p)
  \/ \E payload \in StorePayloads : updateSensors(payload)
  \/ \E d \in StoreDeltas : updateRealTimePosition(d, 1)
  \/ captureSensorSnapshot(0)
  \/ startDataRecording
  \/ stopDataRecording

SpecStore == Init /\ [][NextStore]_vars

(***************************************************************************)
(* The particle filter on its own: particleFilterUpdate and                *)
(* resampleParticles applied once to a population drawn from bounded sets. *)
(***************************************************************************)
\* raw weights: none, small, large (not normalized)
WeightSet == { Zero, <<1, 20>>, <<9, 10>> }
StepLengthSet == { <<3, 5>>, <<53, 10>> }
HeadingSet == { Zero, <<90, 1>> }
\* Math.random() for the resampling offset
OffsetSet == { Zero, <<1, 2>>, <<9, 10>> }
\* streams of Math.random() values for the moves
StreamSet == { 1, 2, 3, 4 }

\* particle i stands at (i, -i) with heading 10 i, so a pose names its particle
Population(ws) ==
  [ i \in 1..Len(ws) |->
      [ x |-> <<i, 1>>, y |-> <<-i, 1>>, heading |-> <<10 * i, 1>>,
        weight |-> ws[i] ] ]

Populations ==
  { Population(ws) :
      ws \in UNION { [1..n -> WeightSet] : n \in (NumParticles - 1)..NumParticles } }

InitPF ==
  /\ userState = "startPointSelected"
  /\ sensorEnabled = TRUE
  /\ dragMode = FALSE
  /\ orientationAngle = Zero
  /\ rawAcceleration = ZeroVec
  /\ rawGyroscope = ZeroGyro
  /\ rawMagnetometer = ZeroVec
  /\ barometricPressure = StdPressure
  /\ recording = FALSE
  /\ \/ \E ps \in Populations, p \in PosSet :
          pdr = [initialPDR EXCEPT !.particles = ps,
                                   !.x = p.x, !.y = p.y, !.z = p.z]
     \/ pdr = initialPDR
  /\ orientationAngleRef = Zero
  /\ now = EpochStart
  /\ lastCall = "none"
  /\ stepTimes = << >>
  /\ threw = FALSE
  /\ dataSnapshots = << >>
  /\ call = NoCall

CallParticleFilterUpdate(stepLength, headingDeg, s) ==
  /\ lastCall = "none"
  /\ \E res \in { particleFilterUpdate(pdr, stepLength, headingDeg, defaultConfig,
                    RandomStream(s, 2 * Len(pdr.particles) + 1)) } :
       /\ pdr' = res.state
       /\ threw' = res.threw
  /\ lastCall' = "particleFilterUpdate"
  /\ UNCHANGED << userState, sensorEnabled, orientationAngle, rawVars, uiVars,
                  orientationAngleRef, now, stepTimes >>
  /\ UNCHANGED << dataSnapshots, call >>

CallResampleParticles(r) ==
  /\ lastCall = "none"
  /\ \E res \in { resampleParticles(pdr, defaultConfig, r) } :
       /\ pdr' = res.state
       /\ threw' = res.threw
  /\ lastCall' = "resampleParticles"
  /\ UNCHANGED << userState, sensorEnabled, orientationAngle, rawVars, uiVars,
                  orientationAngleRef, now, stepTimes >>
  /\ UNCHANGED << dataSnapshots, call >>

NextPF ==
  \/ \E l \in StepLengthSet, h \in HeadingSet, s \in StreamSet :
       CallParticleFilterUpdate(l, h, s)
  \/ \E r \in OffsetSet : CallResampleParticles(r)

SpecPF == InitPF /\ [][NextPF]_vars

\* particleFilterUpdate on populations whose weights sum to zero or less
SignedWeightSet == { <<-1, 2>>, Zero, <<1, 2>> }
DegeneratePopulations ==
  { ps \in { Population(ws) :
              ws \in UNION { [1..n -> SignedWeightSet] :
                               n \in (NumParticles - 1)..NumParticles } } :
      RLe(SumWeights(ps, Len(ps)), Zero) }

InitDegenerate ==
  /\ userState = "startPointSelected"
  /\ sensorEnabled = TRUE
  /\ dragMode = FALSE
  /\ orientationAngle = Zero
  /\ rawAcceleration = ZeroVec
  /\ rawGyroscope = ZeroGyro
  /\ rawMagnetometer = ZeroVec
  /\ barometricPressure = StdPressure
  /\ recording = FALSE
  /\ \E ps \in DegeneratePopulations, p \in PosSet :
       pdr = [initialPDR EXCEPT !.particles = ps,
                                !.x = p.x, !.y = p.y, !.z = p.z]
  /\ orientationAngleRef = Zero
  /\ now = EpochStart
  /\ lastCall = "none"
  /\ stepTimes = << >>
  /\ threw = FALSE
  /\ dataSnapshots = << >>
  /\ call = NoCall

NextDegenerate ==
  \E l \in StepLengthSet, h \in HeadingSet, s \in StreamSet :
    CallParticleFilterUpdate(l, h, s)

SpecDegenerate == InitDegenerate /\ [][NextDegenerate]_vars

(***************************************************************************)
(* The pure functions of the core on their own: each is applied to         *)
(* arguments drawn from bounded sets, and the call is recorded.            *)
(***************************************************************************)
\* degrees: negative, zero, in range, the bound itself, beyond it
DegreeSet == { <<-725, 1>>, <<-90, 1>>, <<-1, 2>>, Zero, <<45, 1>>,
               <<719, 2>>, <<360, 1>>, <<1085, 1>> }
BiasSet == { <<-400, 1>>, <<-10, 1>>, Zero, <<10, 1>>, <<1200, 1>> }
GainSet == { <<-2, 1>>, <<3, 10>>, <<361, 1>> }
\* lengths below, on the bounds of, inside and above both ranges
LengthSet == { <<-1, 5>>, Zero, <<2, 5>>, <<1, 2>>, <<3, 5>>, <<7, 10>>,
               <<9, 10>>, <<11, 10>>, <<6, 5>>, <<53, 10>> }
MotionSet == { "walking", "running", "stairs", "unknown" }
\* variances below, on and above the thresholds 0.5, 2 and 5
AccelVarSet == { Zero, <<3, 10>>, <<1, 2>>, <<3, 5>>, <<10, 1>> }
GyroVarSet == { <<-1, 1>>, Zero, <<2, 1>>, <<3, 1>>, <<5, 1>>, <<6, 1>> }

sessionVars == << userState, sensorEnabled, dragMode, orientationAngle,
                  rawAcceleration, rawGyroscope, rawMagnetometer,
                  barometricPressure, recording, pdr, orientationAngleRef,
                  now, lastCall, stepTimes, threw, dataSnapshots >>

CallComputeHeading(deviceOrientation, geolocationHeading) ==
  /\ call' = [ fn |-> "computeHeading",
               args |-> << deviceOrientation, geolocationHeading >>,
               ret |-> computeHeading(deviceOrientation, geolocationHeading) ]
  /\ UNCHANGED sessionVars

CallCorrectHeading(headingDeg, bias, gain) ==
  /\ call' = [ fn |-> "correctHeading",
               args |-> << headingDeg, bias, gain >>,
               ret |-> correctHeading(headingDeg, bias,
                         [defaultConfig EXCEPT !.headingCorrectionGain = gain]) ]
  /\ UNCHANGED sessionVars

CallCorrectStepLength(stepLength, motionState) ==
  /\ call' = [ fn |-> "correctStepLength",
               args |-> << stepLength, motionState >>,
               ret |-> correctStepLength(stepLength, motionState, defaultConfig) ]
  /\ UNCHANGED sessionVars

CallClassifyMotion(accelVariance, gyroVariance) ==
  /\ call' = [ fn |-> "classifyMotion",
               args |-> << accelVariance, gyroVariance >>,
               ret |-> classifyMotion(accelVariance, gyroVariance) ]
  /\ UNCHANGED sessionVars

NextFn ==
  \/ \E o \in DegreeSet, g \in DegreeSet \cup {Null} : CallComputeHeading(o, g)
  \/ \E h \in DegreeSet, b \in BiasSet, g \in GainSet : CallCorrectHeading(h, b, g)
  \/ \E l \in LengthSet, m \in MotionSet : CallCorrectStepLength(l, m)
  \/ \E a \in AccelVarSet, g \in GyroVarSet : CallClassifyMotion(a, g)

SpecFn == Init /\ [][NextFn]_vars

(***************************************************************************)
(* Properties.                                                             *)
(***************************************************************************)
RECURSIVE RSum(_, _)
RSum(f, n) == IF n = 0 THEN Zero ELSE RAdd(f[n], RSum(f, n - 1))

TotalWeight(ps) == RSum([ i \in 1..Len(ps) |-> ps[i].weight ], Len(ps))
MeanOfX(ps) == RSum([ i \in 1..Len(ps) |-> RMul(ps[i].weight, ps[i].x) ], Len(ps))
MeanOfY(ps) == RSum([ i \in 1..Len(ps) |-> RMul(ps[i].weight, ps[i].y) ], Len(ps))
Uniform(ps, n) == \A i \in 1..Len(ps) : ps[i].weight = R(1, n)
AboveThreshold(accel) ==
  RGt(RAdd(RAdd(RMul(accel.x, accel.x), RMul(accel.y, accel.y)),
           RMul(accel.z, accel.z)), <<36, 25>>)
\* some particle was copied twice by resampling
HasCopies(ps) ==
  \E i, j \in 1..Len(ps) : i # j /\ ps[i].x = ps[j].x /\ ps[i].y = ps[j].y

\* the step is a call of updateRealTimePosition; the first two conjuncts
\* follow from the third and only spare its evaluation on other steps
IsUpdateRealTimePosition ==
  /\ UNCHANGED << userState, orientationAngle, rawAcceleration >>
  /\ lastCall' # "none"
  /\ \E d \in {now' - now} \cap 0..MaxDelta, s \in Streams :
       updateRealTimePosition(d, s)
IsParticleFilterUpdate ==
  \E l \in StepLengthSet, h \in HeadingSet, s \in StreamSet :
    CallParticleFilterUpdate(l, h, s)
IsResampleParticles == \E r \in OffsetSet : CallResampleParticles(r)

\* C1: in a session, once particleFilterUpdate has run the particle weights
\* sum to 1, and the population always holds config.particleCount particles,
\* so no call changes the count.
WeightInvariant ==
  /\ Len(pdr.particles) = defaultConfig.particleCount
  /\ pdr.stepCount >= 1 => TotalWeight(pdr.particles) = One

WeightInvariantWitness ==
  /\ lastCall = "step"
  /\ pdr.stepCount >= 1
  /\ \E i \in 1..Len(pdr.particles) :
       pdr.particles[i].x # Zero \/ pdr.particles[i].y # Zero

\* C2: updateRealTimePosition called while userState = "selectingStart"
\* leaves pdr.x, pdr.y, pdr.z, pdr.particles and pdr.stepCount as they were,
\* whatever the cached acceleration.
PhaseGating ==
  [][ (IsUpdateRealTimePosition /\ userState = "selectingStart")
      => /\ pdr'.x = pdr.x /\ pdr'.y = pdr.y /\ pdr'.z = pdr.z
         /\ pdr'.particles = pdr.particles
         /\ pdr'.stepCount = pdr.stepCount ]_vars

PhaseGatingWitness ==
  /\ userState = "selectingStart"
  /\ lastCall = "skipped"
  /\ AboveThreshold(rawAcceleration)
  /\ RGt(RSub(R(now, 10), pdr.lastStepTime), <<1, 5>>)

\* C3: setStartingPosition, setSensorEnabled(false) and
\* setUserState("selectingStart") put every particle back at the origin with
\* heading 0 and weight 1/N and zero stepCount and lastStepTime.
ResetContract ==
  [][ ( \/ \E p \in PosSet : setStartingPosition(p)
        \/ setSensorEnabled(FALSE)
        \/ setUserState("selectingStart") )
      => /\ pdr'.particles = initialPDR.particles
         /\ pdr'.stepCount = 0
         /\ pdr'.lastStepTime = Zero ]_vars

\* C4: a step detected right after setStartingPosition(p) writes the
\* position p displaced by the mean displacement of the particles in that
\* step.
RepositionAnchorsEstimate ==
  [][ \A p \in PosSet :
        ( /\ pdr.x = p.x /\ pdr.y = p.y /\ pdr.z = p.z
          /\ IsUpdateRealTimePosition
          /\ pdr'.stepCount = pdr.stepCount + 1 )
        => LET n == Len(pdr.particles)
               dx == [ i \in 1..n |->
                         RMul(pdr'.particles[i].weight,
                              RSub(pdr'.particles[i].x, pdr.particles[i].x)) ]
               dy == [ i \in 1..n |->
                         RMul(pdr'.particles[i].weight,
                              RSub(pdr'.particles[i].y, pdr.particles[i].y)) ]
           IN  /\ pdr'.x = RAdd(p.x, RSum(dx, n))
               /\ pdr'.y = RAdd(p.y, RSum(dy, n)) ]_vars

\* C5: any two detected steps are more than 0.2 s apart; after a sample
\* that registered a step, an above-threshold sample at most 0.1 s later
\* registers none and one at least 0.3 s later registers one.
RefractoryPeriod ==
  [][ /\ \A i, j \in DOMAIN stepTimes' :
           i < j => RGt(RSub(stepTimes'[j], stepTimes'[i]), <<1, 5>>)
      /\ ( /\ IsUpdateRealTimePosition
           /\ userState = "startPointSelected"
           /\ lastCall = "step"
           /\ AboveThreshold(rawAcceleration) )
         => /\ RLe(R(now' - now, 10), <<1, 10>>) => stepTimes' = stepTimes
            /\ RLe(<<3, 10>>, R(now' - now, 10))
                 => stepTimes' = Append(stepTimes, R(now', 10)) ]_vars

RefractoryPeriodWitness ==
  /\ Len(stepTimes) = 2
  /\ stepTimes[2] = RAdd(stepTimes[1], <<3, 10>>)

NormalizedSquares(ps) ==
  LET t == TotalWeight(ps)
      w == [ i \in 1..Len(ps) |->
               IF RGt(t, Zero) THEN RDiv(ps[i].weight, t) ELSE ps[i].weight ]
  IN  RSum([ i \in 1..Len(ps) |-> RMul(w[i], w[i]) ], Len(ps))

\* 1 / q < threshold, for q > 0
NeffBelowThreshold(ps) ==
  LET q == NormalizedSquares(ps)
  IN  RGt(q, Zero) /\ RLt(One, RMul(q, defaultConfig.resampleThreshold))

\* (a resampled population shows: below half the particle count some
\* particle is copied at least twice)
DegeneracyTrigger ==
  [][ (IsParticleFilterUpdate /\ NeffBelowThreshold(pdr.particles))
      => /\ ~threw'
         /\ Uniform(pdr'.particles, defaultConfig.particleCount)
         /\ HasCopies(pdr'.particles) ]_vars

DegeneracyTriggerWitness ==
  /\ lastCall = "particleFilterUpdate"
  /\ HasCopies(pdr.particles)
  /\ Uniform(pdr.particles, defaultConfig.particleCount)

\* C8: when particleFilterUpdate returns, pdr.x and pdr.y are the weighted
\* means of the particles' x and y under the weights they then carry.
EstimateIsWeightedMean ==
  (lastCall = "particleFilterUpdate" /\ ~threw)
    => /\ pdr.x = MeanOfX(pdr.particles)
       /\ pdr.y = MeanOfY(pdr.particles)

EstimateIsWeightedMeanWitness ==
  /\ lastCall = "particleFilterUpdate"
  /\ ~threw
  /\ \E i, j \in 1..Len(pdr.particles) :
       RLt(Zero, pdr.particles[i].weight)
         /\ RLt(pdr.particles[i].weight, pdr.particles[j].weight)

\* C9: in the tracking phase detectSteps returns true exactly when the
\* magnitude is above 1.2 and timeNow - lastStepTime is above 0.2, and then
\* stepCount has grown by 1 and lastStepTime is timeNow.
StepDetectionRule ==
  [][ (IsUpdateRealTimePosition /\ userState = "startPointSelected")
      => /\ (lastCall' = "step")
              <=> ( /\ AboveThreshold(rawAcceleration)
                    /\ RGt(RSub(R(now', 10), pdr.lastStepTime), <<1, 5>>) )
         /\ lastCall' = "step"
              => /\ pdr'.stepCount = pdr.stepCount + 1
                 /\ pdr'.lastStepTime = R(now', 10) ]_vars

StepDetectionRuleWitness ==
  /\ lastCall = "step"
  /\ pdr.stepCount = 2
  /\ pdr.lastStepTime = R(now, 10)

\* C10: when detectSteps returns false, stepCount, lastStepTime, the
\* position, the particles and the labels are as they were.
NoStepNoChange ==
  [][ ( /\ IsUpdateRealTimePosition
        /\ userState = "startPointSelected"
        /\ lastCall' = "noStep" )
      => /\ pdr' = [pdr EXCEPT !.lastAccelMag = pdr'.lastAccelMag]
         /\ stepTimes' = stepTimes ]_vars

NoStepNoChangeWitness ==
  /\ lastCall = "noStep"
  /\ userState = "startPointSelected"
  /\ pdr.stepCount = 1
  /\ RGt(pdr.lastAccelMag, <<6, 5>>)

InRange360(h) == RLe(Zero, h) /\ RLt(h, <<360, 1>>)

Clamp(l, range) ==
  IF RLt(l, range[1]) THEN range[1] ELSE IF RGt(l, range[2]) THEN range[2] ELSE l
Within(l, range) == RLe(range[1], l) /\ RLe(l, range[2])

\* C12: correctStepLength returns the clamp of L to stepLengthWalkRange for
\* "walking" and to stepLengthRunRange for "running" (L itself when in range,
\* else the nearer bound), and L unchanged for every other motion state.
StepLengthClamp ==
  call.fn = "correctStepLength" =>
    LET l == call.args[1]
        m == call.args[2]
    IN  /\ m = "walking" =>
             /\ Within(call.ret, defaultConfig.stepLengthWalkRange)
             /\ call.ret = Clamp(l, defaultConfig.stepLengthWalkRange)
        /\ m = "running" =>
             /\ Within(call.ret, defaultConfig.stepLengthRunRange)
             /\ call.ret = Clamp(l, defaultConfig.stepLengthRunRange)
        /\ m \notin {"walking", "running"} => call.ret = l

\* a running length above the running range came back as its upper bound
StepLengthClampWitness ==
  /\ call.fn = "correctStepLength"
  /\ call.args[2] = "running"
  /\ RGt(call.args[1], defaultConfig.stepLengthRunRange[2])
  /\ call.ret = defaultConfig.stepLengthRunRange[2]

RAbs(a) == << Abs(a[1]), a[2] >>
\* the most a particle moves across the commanded heading: the longest step
\* times the sine of the heading noise
LateralBound(stepLength, config) ==
  RMul(RAdd(stepLength, config.stepLenNoise), Sin(config.headingNoise))

\* C13: from all particles at the origin with uniform weights and position
\* (0,0,0), one particleFilterUpdate with stepLength 0.6 and heading 0 puts
\* the estimate within stepLenNoise of y = 0.6 and within the heading-noise
\* bound of x = 0; with heading 90 the same holds with x and y exchanged.
DisplacementConvention ==
  [][ \A s \in StreamSet :
        /\ (pdr = initialPDR /\ CallParticleFilterUpdate(<<3, 5>>, Zero, s)) =>
             /\ ~threw'
             /\ RLe(RAbs(RSub(pdr'.y, <<3, 5>>)), defaultConfig.stepLenNoise)
             /\ RLe(RAbs(pdr'.x), LateralBound(<<3, 5>>, defaultConfig))
        /\ (pdr = initialPDR /\ CallParticleFilterUpdate(<<3, 5>>, <<90, 1>>, s)) =>
             /\ ~threw'
             /\ RLe(RAbs(RSub(pdr'.x, <<3, 5>>)), defaultConfig.stepLenNoise)
             /\ RLe(RAbs(pdr'.y), LateralBound(<<3, 5>>, defaultConfig)) ]_vars

\* the step north from the origin, with noise on both axes
DisplacementConventionWitness ==
  /\ lastCall = "particleFilterUpdate"
  /\ pdr.z = Zero
  /\ Uniform(pdr.particles, NumParticles)
  /\ RGt(pdr.y, <<1, 2>>) /\ RLt(pdr.y, <<7, 10>>) /\ pdr.y # <<3, 5>>
  /\ pdr.x # Zero /\ RLt(RAbs(pdr.x), <<1, 10>>)

\* C14: over any sequence of reducer actions pdr.stepCount never decreases:
\* it grows by exactly 1 on each updateRealTimePosition in which detectSteps
\* returns true, and every other action leaves it as it was.
StepCountMonotone ==
  [][ /\ pdr'.stepCount >= pdr.stepCount
      /\ pdr'.stepCount =
           pdr.stepCount + (IF Len(stepTimes') = Len(stepTimes) + 1 THEN 1 ELSE 0)
      /\ stepTimes' # stepTimes => lastCall' = "step" ]_vars

\* two steps were counted, with a rejected sample, a capture and both ui
\* reducers among the actions
StepCountMonotoneWitness ==
  /\ pdr.stepCount = 2
  /\ Len(stepTimes) = 2
  /\ lastCall = "noStep"
  /\ Len(dataSnapshots) >= 1
  /\ dragMode /\ recording

\* C15: pdr.z changes only through setStartingPosition: particleFilterUpdate
\* and updateRealTimePosition, like every other reducer, pass it through.
AltitudePassThrough ==
  [][ pdr'.z # pdr.z =>
        /\ \E p \in PosSet : setStartingPosition(p)
        /\ UNCHANGED << now, lastCall, stepTimes >> ]_vars

\* a step moved the estimate after a repositioning and z is still the
\* repositioned one
AltitudePassThroughWitness ==
  /\ lastCall = "step"
  /\ pdr.z = One
  /\ pdr.stepCount >= 1
  /\ \E p \in PosSet : pdr.x # p.x /\ pdr.y # p.y /\ pdr.z = p.z

\* C16: captureSensorSnapshot appends exactly one record to dataSnapshots,
\* holding the current raw acceleration, gyroscope, magnetometer, barometric
\* pressure and pdr position; the records stored before are left as they
\* were by it and by every other reducer.
SnapshotAppendOnly ==
  [][ /\ \/ dataSnapshots' = dataSnapshots
         \/ LET n == Len(dataSnapshots)
                rec == dataSnapshots'[n + 1]
            IN  /\ Len(dataSnapshots') = n + 1
                /\ SubSeq(dataSnapshots', 1, n) = dataSnapshots
                /\ rec.acceleration = rawAcceleration
                /\ rec.gyroscope = rawGyroscope
                /\ rec.magnetometer = rawMagnetometer
                /\ rec.barometricPressure = barometricPressure
                /\ rec.position = Vec(pdr.x, pdr.y, pdr.z)
                /\ rec.timestamp = now'
                /\ UNCHANGED << rawVars, pdr >>
      /\ (UNCHANGED << userState, sensorEnabled, orientationAngle, rawVars,
                       uiVars, pdr, lastCall, stepTimes >>
          /\ captureSensorSnapshot(now' - now))
           => Len(dataSnapshots') = Len(dataSnapshots) + 1 ]_vars

\* two records: the first was taken before a sensor update, a step and a
\* repositioning and still holds the values of its time
SnapshotAppendOnlyWitness ==
  /\ Len(dataSnapshots) = 2
  /\ dataSnapshots[1].acceleration = ZeroVec
  /\ dataSnapshots[1].position = Vec(Zero, Zero, Zero)
  /\ rawAcceleration # ZeroVec
  /\ pdr.stepCount >= 1
  /\ pdr.z = One
  /\ dataSnapshots[2].position = Vec(pdr.x, pdr.y, pdr.z)
  /\ dataSnapshots[2].acceleration = rawAcceleration

\* C17: when updateRealTimePosition detects a step, the step frequency it
\* passes to estimateStepLength is the reciprocal of the time since the
\* previous detected step, and 1 only when that time is zero.
StepFrequencyReciprocal ==
  [][ (Len(stepTimes) >= 1 /\ Len(stepTimes') = Len(stepTimes) + 1) =>
        LET nowSec == stepTimes'[Len(stepTimes')]
            interval == RSub(nowSec, stepTimes[Len(stepTimes)])
            res == RealTimePosition(rawAcceleration, orientationAngle, pdr, nowSec,
                                    RandomStream(1, 2 * Len(pdr.particles) + 1))
        IN  /\ res.stepDetected
            /\ res.stepFreq = IF interval = Zero THEN One ELSE RDiv(One, interval) ]_vars

\* C18: particleFilterUpdate on a population whose weights sum to zero or
\* less leaves every particle's weight as it was and completes: no resampling
\* it triggers reads a particle outside the population.
DegenerateWeightsUntouched ==
  [][ (lastCall = "none" /\ lastCall' = "particleFilterUpdate"
       /\ RLe(SumWeights(pdr.particles, Len(pdr.particles)), Zero)) =>
        /\ ~threw'
        /\ Len(pdr'.particles) = Len(pdr.particles)
        /\ \A i \in 1..Len(pdr.particles) :
             pdr'.particles[i].weight = pdr.particles[i].weight ]_vars

\* C19: classifyMotion is a total three-way partition of its inputs:
\* "walking" exactly when accelVariance < 0.5 and gyroVariance < 2, "running"
\* exactly when accelVariance > 0.5 and gyroVariance > 5, "stairs" for every
\* other input, the boundary values included; the call leaves the session
\* state as it was.
MotionPartition ==
  [][ call'.fn = "classifyMotion" =>
        LET a == call'.args[1]
            g == call'.args[2]
            low == RLt(a, <<1, 2>>) /\ RLt(g, <<2, 1>>)
            high == RGt(a, <<1, 2>>) /\ RGt(g, <<5, 1>>)
        IN  /\ call'.ret \in {"walking", "running", "stairs"}
            /\ call'.ret = "walking" <=> low
            /\ call'.ret = "running" <=> high
            /\ call'.ret = "stairs" <=> (~low /\ ~high)
            /\ UNCHANGED sessionVars ]_vars

\* accelVariance on its threshold with gyroVariance above the upper one
MotionPartitionWitness ==
  /\ call.fn = "classifyMotion"
  /\ call.args = << <<1, 2>>, <<6, 1>> >>
  /\ call.ret = "stairs"
  /\ pdr = initialPDR

\* C20: in every session state the reducers reach from the initial store,
\* every particle's heading lies in [0, 360) and every particle's weight is
\* not negative.
ParticleRanges ==
  \A i \in 1..Len(pdr.particles) :
    /\ InRange360(pdr.particles[i].heading)
    /\ RLe(Zero, pdr.particles[i].weight)

\* after a step some particle's heading was wrapped from below zero
ParticleRangesWitness ==
  /\ pdr.stepCount >= 1
  /\ \E i \in 1..Len(pdr.particles) :
       /\ RGt(pdr.particles[i].heading, <<350, 1>>)
       /\ RGt(pdr.particles[i].weight, Zero)

\* the particle p after its own propagation, carrying weight w
Propagated(p, w, stepLength, headingDeg, r1, r2) ==
  [MoveParticle(p, stepLength, headingDeg, defaultConfig, r1, r2) EXCEPT !.weight = w]

\* C21: when Neff after normalization is at or above config.resampleThreshold
\* particleFilterUpdate does not resample: the population keeps its particles
\* in their order, each moved by its own propagation and carrying its
\* normalized weight.
NoResampleFrame ==
  [][ \A l \in StepLengthSet, h \in HeadingSet, s \in StreamSet :
        (/\ RGt(TotalWeight(pdr.particles), Zero)
         /\ ~NeffBelowThreshold(pdr.particles)
         /\ CallParticleFilterUpdate(l, h, s)) =>
          /\ ~threw'
          /\ Len(pdr'.particles) = Len(pdr.particles)
          /\ \A i \in 1..Len(pdr.particles) :
               pdr'.particles[i] =
                 Propagated(pdr.particles[i],
                            RDiv(pdr.particles[i].weight, TotalWeight(pdr.particles)),
                            l, h, Rnd(s, 2 * i - 1), Rnd(s, 2 * i)) ]_vars

\* an update that did not resample a population of unequal weights
NoResampleFrameWitness ==
  /\ lastCall = "particleFilterUpdate"
  /\ ~threw
  /\ Len(pdr.particles) = defaultConfig.particleCount
  /\ ~Uniform(pdr.particles, defaultConfig.particleCount)
  /\ ~NeffBelowThreshold(pdr.particles)
  /\ TotalWeight(pdr.particles) = One
  /\ \A i \in 1..Len(pdr.particles) : RGt(pdr.particles[i].weight, Zero)

\* C22: after resampling every particle of the new population carries the
\* x, y and heading of some particle of the old population: no pose is
\* created and none is altered.
ResampledPosesAreOld ==
  [][ (lastCall = "none" /\ lastCall' = "resampleParticles" /\ ~threw') =>
        \A j \in 1..Len(pdr'.particles) :
          \E i \in 1..Len(pdr.particles) :
            /\ pdr'.particles[j].x = pdr.particles[i].x
            /\ pdr'.particles[j].y = pdr.particles[i].y
            /\ pdr'.particles[j].heading = pdr.particles[i].heading ]_vars

\* a resampling that dropped the first particle and copied another twice
ResampledPosesAreOldWitness ==
  /\ lastCall = "resampleParticles"
  /\ ~threw
  /\ HasCopies(pdr.particles)
  /\ \A j \in 1..Len(pdr.particles) :
       pdr.particles[j].x # One /\ pdr.particles[j].heading # Zero

\* what a detected step at nowSec computes from the store before it
StepOf(nowSec) ==
  RealTimePosition(rawAcceleration, orientationAngle, pdr, nowSec,
                   RandomStream(1, 2 * Len(pdr.particles) + 1))

\* C23: in updateRealTimePosition the step length passed to
\* particleFilterUpdate is exactly 5 times what correctStepLength returns
\* for the estimated length, and the particles move by that length.
StepLengthScaling ==
  [][ Len(stepTimes') = Len(stepTimes) + 1 =>
        \E res \in { StepOf(stepTimes'[Len(stepTimes')]) } :
          \E passed \in
             { RMul(<<5, 1>>,
                    correctStepLength(
                      estimateStepLength(res.stepFreq, <<3, 10>>,
                                         pdr'.motionState, pdr.deviceContext),
                      pdr'.motionState, defaultConfig)) } :
            /\ res.stepLength = passed
            /\ \E s \in Streams :
                 pdr'.particles =
                   NormalizeWeights(
                     MoveParticles(pdr.particles, passed, res.headingDeg,
                                   defaultConfig,
                                   RandomStream(s, 2 * Len(pdr.particles)))) ]_vars

\* the first step from the origin facing north: 5 * 1.06 = 5.3 along y
StepLengthScalingWitness ==
  /\ lastCall = "step"
  /\ pdr.stepCount = 1
  /\ pdr.z = Zero
  /\ orientationAngle = Zero
  /\ RGt(pdr.y, <<5, 1>>) /\ RLt(pdr.y, <<28, 5>>)

SquaredMagnitude(accel) ==
  RAdd(RAdd(RMul(accel.x, accel.x), RMul(accel.y, accel.y)),
       RMul(accel.z, accel.z))

\* C24: after every updateRealTimePosition made in the tracking phase, step
\* or no step, pdr.lastAccelMag is the Euclidean magnitude of
\* state.rawAcceleration.
LastAccelMagCached ==
  [][ (userState # "selectingStart" /\ IsUpdateRealTimePosition) =>
        /\ RLe(Zero, pdr'.lastAccelMag)
        /\ RMul(pdr'.lastAccelMag, pdr'.lastAccelMag)
             = SquaredMagnitude(rawAcceleration') ]_vars

\* a sample of magnitude 1.2 was rejected after a step and its magnitude
\* is the one cached
LastAccelMagCachedWitness ==
  /\ lastCall = "noStep"
  /\ pdr.stepCount >= 1
  /\ pdr.lastAccelMag = <<6, 5>>
  /\ SquaredMagnitude(rawAcceleration) = <<36, 25>>

\* C25: in every state the reducers reach from the initial store all
\* particle weights are equal to 1/particleCount, so Neff is the particle
\* count, never below config.resampleThreshold, and the session never
\* resamples.
UniformWeights ==
  /\ Uniform(pdr.particles, defaultConfig.particleCount)
  /\ Neff(pdr.particles) = << Len(pdr.particles), 1 >>
  /\ ~RLt(Neff(pdr.particles), defaultConfig.resampleThreshold)
  /\ ~threw

\* two steps on, the particles stand apart and still weigh the same
UniformWeightsWitness ==
  /\ pdr.stepCount >= 2
  /\ Uniform(pdr.particles, defaultConfig.particleCount)
  /\ \A i, j \in 1..Len(pdr.particles) :
       i # j => pdr.particles[i].y # pdr.particles[j].y

\* floor and ceiling of a rational that is not negative
Floor(a) == a[1] \div a[2]
Ceil(a) == (a[1] + a[2] - 1) \div a[2]
\* how many particles of ps stand where p stands
Copies(ps, p) == Cardinality({ j \in 1..Len(ps) : ps[j].x = p.x /\ ps[j].y = p.y })

\* C26: resampling is proportional: on particleCount particles of
\* non-negative weights with total W > 0 and for every offset in [0, W/N),
\* particle i is copied floor(N w_i / W) or ceil(N w_i / W) times, so a
\* particle of weight zero is never copied and a uniform population is
\* reproduced one copy each.
ResamplingProportional ==
  [][ (/\ lastCall = "none" /\ lastCall' = "resampleParticles"
       /\ Len(pdr.particles) = defaultConfig.particleCount
       /\ RGt(TotalWeight(pdr.particles), Zero)) =>
        /\ ~threw'
        /\ \A i \in 1..Len(pdr.particles) :
             LET share == RDiv(RMul(<<defaultConfig.particleCount, 1>>,
                                    pdr.particles[i].weight),
                               TotalWeight(pdr.particles))
             IN  Copies(pdr'.particles, pdr.particles[i])
                   \in { Floor(share), Ceil(share) } ]_vars

\* the signed difference h - ref of two headings, in [-180, 180)
HeadingOffset(h, ref) ==
  RSub(Wrap360(RAdd(RSub(h, ref), <<180, 1>>)), <<180, 1>>)

\* C27: in any interleaving of devicemotion and deviceorientation events the
\* updateRealTimePosition a devicemotion event dispatches reads that event's
\* acceleration, never the zero acceleration a deviceorientation event left
\* in the store, and uses the alpha of the latest deviceorientation event
\* (0 before the first).
HookReadsOwnEvent ==
  [][ \A a \in { rawAcceleration' } \cap HookAccelSet,
         d \in { now' - now } \cap 0..MaxDelta, s \in Streams :
        (lastCall' # "none" /\ handleDeviceMotion(a, d, s)) =>
          /\ lastCall' \in {"step", "noStep"}
          /\ RMul(pdr'.lastAccelMag, pdr'.lastAccelMag) = SquaredMagnitude(a)
          /\ orientationAngle' = orientationAngleRef
          /\ lastCall' = "step" =>
               \A i \in 1..Len(pdr'.particles) :
                 RLe(RAbs(HeadingOffset(pdr'.particles[i].heading,
                                        orientationAngleRef)),
                     RDiv(defaultConfig.headingNoise, <<2, 1>>)) ]_vars

\* a step taken between two deviceorientation events: the particles head
\* east as the first event said, the magnitude is the motion event's, and
\* the store holds the zero acceleration and the alpha of the second
HookReadsOwnEventWitness ==
  /\ lastCall = "step"
  /\ pdr.stepCount = 1
  /\ pdr.lastAccelMag = <<3, 2>>
  /\ rawAcceleration = ZeroVec
  /\ orientationAngleRef = Zero
  /\ \A i \in 1..Len(pdr.particles) :
       RLe(RAbs(HeadingOffset(pdr.particles[i].heading, <<90, 1>>)), <<5, 2>>)

\* C28: in every store state sensorEnabled is true exactly when userState
\* is "startPointSelected": setSensorEnabled and setUserState change the two
\* together and no other reducer changes either.
EnabledIffTracking ==
  [][ /\ sensorEnabled <=> userState = "startPointSelected"
      /\ sensorEnabled' <=> userState' = "startPointSelected"
      /\ (sensorEnabled' # sensorEnabled \/ userState' # userState) =>
           /\ sensorEnabled' # sensorEnabled /\ userState' # userState
           /\ \/ \E b \in BOOLEAN : setSensorEnabled(b)
              \/ \E u \in {"selectingStart", "startPointSelected"} :
                   setUserState(u) ]_vars

\* tracking was switched on after a skipped update, with both ui reducers
\* and a capture among the actions before
EnabledIffTrackingWitness ==
  /\ sensorEnabled
  /\ userState = "startPointSelected"
  /\ lastCall = "skipped"
  /\ dragMode /\ recording
  /\ Len(dataSnapshots) >= 1

\* the first step of a session, taken from the initial store
ReferenceStep ==
  RealTimePosition(Vec(<<-9, 10>>, <<6, 5>>, Zero), Zero, initialPDR,
                   R(EpochStart, 10), RandomStream(1, 2 * NumParticles + 1))

\* C29: on every detected step updateRealTimePosition stores the same
\* motionState and passes the same step length to the particle filter,
\* whatever the acceleration sample, the time since the previous step and
\* the number of steps before.
ConstantStep ==
  [][ Len(stepTimes') = Len(stepTimes) + 1 =>
        \E res \in { RealTimePosition(rawAcceleration', orientationAngle', pdr,
                                      stepTimes'[Len(stepTimes')],
                                      RandomStream(1, 2 * Len(pdr.particles) + 1)) } :
          /\ res.stepDetected
          /\ res.stepLength = ReferenceStep.stepLength
          /\ res.pdr.motionState = ReferenceStep.pdr.motionState
          /\ pdr'.motionState = ReferenceStep.pdr.motionState ]_vars

\* a second step, from a sample of magnitude 2 and sooner after the first
\* than the first came after time 0, with the label of the first
ConstantStepWitness ==
  /\ lastCall = "step"
  /\ pdr.stepCount = 2
  /\ pdr.lastAccelMag = <<2, 1>>
  /\ RLt(RSub(stepTimes[2], stepTimes[1]), stepTimes[1])
  /\ pdr.motionState = ReferenceStep.pdr.motionState

\* the indices resampleParticles selects on the population ps with
\* Math.random() = r
SelectedIndices(ps, r) ==
  LET cdf == [ i \in 1..Len(ps) |-> SumWeights(ps, i) ]
      step == RDiv(SumWeights(ps, Len(ps)), <<defaultConfig.particleCount, 1>>)
  IN  IndexWalk(cdf, step, RMul(r, step), 1, 0, defaultConfig)

====
